---------------------------- MODULE Spec2Model ----------------------------
(***************************************************************************)
(* Model of 0x02-redis_basic/exercise.py: the Cache class (store, get,     *)
(* get_str, get_int), the count_calls and call_history decorators and      *)
(* replay, over a Redis server modelled by its string keys and its lists.  *)
(*                                                                         *)
(* Text and bytes are sequences of numbers: a Python str is a sequence of  *)
(* code points, a bytes object a sequence of byte values 0..255, so that   *)
(* encoding and decoding are computed and not assumed.                     *)
(***************************************************************************)
EXTENDS Integers, Sequences, FiniteSets, TLC

(***************************************************************************)
(* Bounds.                                                                 *)
(***************************************************************************)
\* the number of Cache.store calls one behaviour makes
MaxCalls == 2

(***************************************************************************)
(* Python values: str, bytes, int, float, None and raised exceptions, in   *)
(* one record shape.  s holds code points (str) or byte values (bytes);    *)
(* n holds an int, or a float in tenths (15 is 1.5).                       *)
(***************************************************************************)
PyStr(s) == [t |-> "str", s |-> s, n |-> 0]
PyBytes(b) == [t |-> "bytes", s |-> b, n |-> 0]
PyInt(i) == [t |-> "int", s |-> <<>>, n |-> i]
PyFloat(tenths) == [t |-> "float", s |-> <<>>, n |-> tenths]
PyNone == [t |-> "None", s |-> <<>>, n |-> 0]
Raised(exc) == [t |-> exc, s |-> <<>>, n |-> 0]

IsRaised(v) == v.t \in {"ValueError", "UnicodeDecodeError"}

Abs(i) == IF i < 0 THEN -i ELSE i

IsDigit(c) == c >= 48 /\ c <= 57

(***************************************************************************)
(* str.encode('utf-8') and bytes.decode('utf-8') for code points below     *)
(* 2048 (one- and two-byte forms).                                         *)
(***************************************************************************)
RECURSIVE Utf8Encode(_)
Utf8Encode(s) ==
    IF s = <<>> THEN <<>>
    ELSE LET c == Head(s) IN
         (IF c < 128 THEN <<c>>
          ELSE <<192 + (c \div 64), 128 + (c % 64)>>) \o Utf8Encode(Tail(s))

\* the decoded text, or <<-1>> when the bytes are not valid UTF-8
RECURSIVE Utf8DecodeFrom(_, _)
Utf8DecodeFrom(b, acc) ==
    IF b = <<>> THEN acc
    ELSE LET c == Head(b) IN
         IF c < 128 THEN Utf8DecodeFrom(Tail(b), Append(acc, c))
         ELSE IF c >= 194 /\ c <= 223 /\ Len(b) >= 2 /\ b[2] >= 128 /\ b[2] <= 191
         THEN Utf8DecodeFrom(Tail(Tail(b)), Append(acc, (c - 192) * 64 + (b[2] - 128)))
         ELSE <<-1>>

ValidUtf8(b) == Utf8DecodeFrom(b, <<>>) # <<-1>>

\* bytes.decode('utf-8')
Utf8Decode(b) ==
    IF ValidUtf8(b) THEN PyStr(Utf8DecodeFrom(b, <<>>)) ELSE Raised("UnicodeDecodeError")

(***************************************************************************)
(* Decimal text of numbers: repr(int), repr(float), and their parsers      *)
(* int(bytes) and float(bytes).                                            *)
(***************************************************************************)
RECURSIVE DecDigits(_)
DecDigits(i) ==
    IF i < 10 THEN <<48 + i>> ELSE Append(DecDigits(i \div 10), 48 + (i % 10))

ReprInt(i) == IF i < 0 THEN <<45>> \o DecDigits(-i) ELSE DecDigits(i)

ReprFloat(tenths) ==
    (IF tenths < 0 THEN <<45>> ELSE <<>>)
        \o DecDigits(Abs(tenths) \div 10) \o <<46>> \o <<48 + (Abs(tenths) % 10)>>

AllDigits(b) == b # <<>> /\ \A i \in 1..Len(b) : IsDigit(b[i])

RECURSIVE DigitsValue(_, _)
DigitsValue(b, acc) ==
    IF b = <<>> THEN acc ELSE DigitsValue(Tail(b), acc * 10 + (Head(b) - 48))

\* the text after an optional sign
Unsigned(b) == IF b # <<>> /\ Head(b) \in {43, 45} THEN Tail(b) ELSE b

Sign(b) == IF b # <<>> /\ Head(b) = 45 THEN -1 ELSE 1

\* the text int() accepts: an optional sign and one or more digits
IsIntText(b) == AllDigits(Unsigned(b))

\* int(d) for bytes d
ParseInt(b) ==
    IF IsIntText(b) THEN PyInt(Sign(b) * DigitsValue(Unsigned(b), 0))
    ELSE Raised("ValueError")

\* the text float() accepts here: int text, or int text "." one digit
IsFloatText(b) ==
    LET u == Unsigned(b) IN
    \/ AllDigits(u)
    \/ /\ Len(u) >= 3
       /\ u[Len(u) - 1] = 46
       /\ IsDigit(u[Len(u)])
       /\ AllDigits(SubSeq(u, 1, Len(u) - 2))

\* float(d) for bytes d
ParseFloat(b) ==
    LET u == Unsigned(b) IN
    IF ~IsFloatText(b) THEN Raised("ValueError")
    ELSE IF AllDigits(u) THEN PyFloat(Sign(b) * DigitsValue(u, 0) * 10)
    ELSE PyFloat(Sign(b) * (DigitsValue(SubSeq(u, 1, Len(u) - 2), 0) * 10 + (u[Len(u)] - 48)))

(***************************************************************************)
(* repr() and str() of the values a caller passes, and str(args).          *)
(***************************************************************************)
HexDigit(h) == IF h < 10 THEN 48 + h ELSE 87 + h

\* one byte inside b'...': itself when printable ASCII, \xhh otherwise
ReprByte(c) ==
    IF c >= 32 /\ c <= 126 /\ c # 39 /\ c # 92 THEN <<c>>
    ELSE IF c = 39 THEN <<92, 39>>
    ELSE IF c = 92 THEN <<92, 92>>
    ELSE <<92, 120, HexDigit(c \div 16), HexDigit(c % 16)>>

RECURSIVE ReprBytesBody(_)
ReprBytesBody(b) ==
    IF b = <<>> THEN <<>> ELSE ReprByte(Head(b)) \o ReprBytesBody(Tail(b))

\* repr(v); the text of a str value holds printable characters other than
\* quotes and backslashes, which repr leaves as they are
Repr(v) ==
    CASE v.t = "str" -> <<39>> \o v.s \o <<39>>
      [] v.t = "bytes" -> <<98, 39>> \o ReprBytesBody(v.s) \o <<39>>
      [] v.t = "int" -> ReprInt(v.n)
      [] v.t = "float" -> ReprFloat(v.n)
      [] OTHER -> <<78, 111, 110, 101>>

\* str(v)
Str(v) == IF v.t = "str" THEN v.s ELSE Repr(v)

\* str(args) for the one-element tuple args = (v,)
StrArgs(v) == <<40>> \o Repr(v) \o <<44, 41>>

(***************************************************************************)
(* The Redis client's encoding of a value written to the server.           *)
(***************************************************************************)
\* the value written as its repr: text keeps its quotes
RedisEncodeRepr(v) == Utf8Encode(Repr(v))

RedisEncode(v) ==
    CASE v.t = "bytes" -> v.s
      [] v.t = "str" -> Utf8Encode(v.s)
      [] v.t = "int" -> ReprInt(v.n)
      [] v.t = "float" -> ReprFloat(v.n)

(***************************************************************************)
(* Keys and inputs.                                                        *)
(***************************************************************************)
\* method.__qualname__ of Cache.store: "Cache.store"
QualName == <<67, 97, 99, 104, 101, 46, 115, 116, 111, 114, 101>>

\* "Cache.store:inputs"
InputsKey == QualName \o <<58, 105, 110, 112, 117, 116, 115>>

\* "Cache.store:outputs"
OutputsKey == QualName \o <<58, 111, 117, 116, 112, 117, 116, 115>>

\* the strings str(uuid.uuid4()) can return: "u1", "u2", ...
Ids == {<<117, 48 + i>> : i \in 1..MaxCalls}

\* a key no store call produces: "zz"
NeverKey == <<122, 122>>

\* the keys callers pass to get, get_str and get_int
GetKeys == Ids \cup {NeverKey}

\* the data callers pass to store: b"hello", b"", b"\xff", "", "é", 123,
\* -3, 0, 1.5
Values ==
    { PyBytes(<<104, 101, 108, 108, 111>>), PyBytes(<<>>), PyBytes(<<255>>),
      PyStr(<<>>), PyStr(<<233>>),
      PyInt(123), PyInt(-3), PyInt(0), PyFloat(15) }

\* the fn arguments callers pass to get: None, bytes.decode, int, float
CallerFns == {"None", "decode", "int", "float"}

Callers == {1, 2}

NoReq == [op |-> "none", key |-> <<>>, fn |-> "None", arg |-> PyNone]

NoFrame == [key |-> <<>>, output |-> PyNone]

NoRet == [val |-> PyNone, fnCalled |-> FALSE, done |-> FALSE, printed |-> <<>>]

\* a caller that has not called get_page
NoPage == [at |-> "idle", cached |-> PyNone, content |-> PyNone, val |-> PyNone, done |-> FALSE]

(***************************************************************************)
(* State.                                                                  *)
(***************************************************************************)
VARIABLES
    strs,     \* the server's string keys: key -> bytes, for the keys present
    lists,    \* the server's lists: key -> sequence of bytes (empty = absent)
    issued,   \* the identifiers uuid4 has returned
    entered,  \* how many times the instrumented store was entered
    pc,       \* per caller: where it is inside Cache.store, or "idle"
    req,      \* per caller: the call it made last (operation and arguments)
    frame,    \* per caller: locals of a store call: key, output
    ret,      \* per caller: what its last completed call returned or raised,
              \* whether it ran fn, and the lines it printed
    calls,    \* the completed store calls in order: argument, key, result
    built,    \* how many Cache objects have been constructed on the server
    ttl,      \* seconds the key cached:<url> has left, 0 when it is absent
    fetches,  \* how many requests.get calls get_page has started
    wcall     \* per caller: its get_page call: position, locals, result

\* the state web.py adds
web == <<ttl, fetches, wcall>>

vars == <<strs, lists, issued, entered, pc, req, frame, ret, calls, built, web>>

(***************************************************************************)
(* The Redis commands the program uses.                                    *)
(***************************************************************************)
\* GET key: the bytes, or None
RedisGet(db, key) == IF key \in DOMAIN db THEN PyBytes(db[key]) ELSE PyNone

\* SET key value
RedisSet(db, key, value) == [x \in DOMAIN db \cup {key} |-> IF x = key THEN value ELSE db[x]]

\* INCR replaced by a SET of 1: the earlier count is lost
RedisIncrLost(db, key) == RedisSet(db, key, ReprInt(1))

\* INCR adding two
RedisIncrTwice(db, key) ==
    LET old == IF key \in DOMAIN db THEN ParseInt(db[key]).n ELSE 0
    IN RedisSet(db, key, ReprInt(old + 2))

\* INCR key: an absent key counts from 0; the result is kept as decimal text
RedisIncr(db, key) ==
    LET old == IF key \in DOMAIN db THEN ParseInt(db[key]).n ELSE 0
    IN RedisSet(db, key, ReprInt(old + 1))

\* LPUSH in place of RPUSH: the newest entry comes first
RedisLpush(ls, key, value) == [ls EXCEPT ![key] = <<value>> \o @]

\* RPUSH key value
RedisRpush(ls, key, value) == [ls EXCEPT ![key] = Append(@, value)]

\* LRANGE key 0 -1
RedisLrange(ls, key) == ls[key]

\* FLUSHDB leaves no string key and no list
FlushedStrs == [x \in {} |-> <<>>]

FlushedLists == [x \in {InputsKey, OutputsKey} |-> <<>>]

(***************************************************************************)
(* Cache.__init__ has run: the database is flushed.                        *)
(***************************************************************************)
Init ==
    /\ strs = FlushedStrs
    /\ lists = FlushedLists
    /\ issued = {}
    /\ entered = 0
    /\ pc = [p \in Callers |-> "idle"]
    /\ req = [p \in Callers |-> NoReq]
    /\ frame = [p \in Callers |-> NoFrame]
    /\ ret = [p \in Callers |-> NoRet]
    /\ calls = <<>>
    /\ built = 1
    /\ ttl = 0
    /\ fetches = 0
    /\ wcall = [p \in Callers |-> NoPage]

(***************************************************************************)
(* Cache.store(data) under count_calls and call_history, one Redis command *)
(* per step.                                                               *)
(***************************************************************************)
\* count_calls.wrapper without its INCR
CountCallsNoIncr(p, data) ==
    /\ pc[p] = "idle"
    /\ entered < MaxCalls
    /\ entered' = entered + 1
    /\ req' = [req EXCEPT ![p] = [op |-> "store", key |-> <<>>, fn |-> "None", arg |-> data]]
    /\ ret' = [ret EXCEPT ![p] = NoRet]
    /\ frame' = [frame EXCEPT ![p] = NoFrame]
    /\ pc' = [pc EXCEPT ![p] = "history"]
    /\ UNCHANGED <<strs, lists, issued, calls, built, web>>

\* count_calls.wrapper writing the count of the calls it has seen complete,
\* plus one, in place of the server's INCR
CountCallsStale(p, data) ==
    /\ pc[p] = "idle"
    /\ entered < MaxCalls
    /\ strs' = RedisSet(strs, QualName, ReprInt(Len(calls) + 1))
    /\ entered' = entered + 1
    /\ req' = [req EXCEPT ![p] = [op |-> "store", key |-> <<>>, fn |-> "None", arg |-> data]]
    /\ ret' = [ret EXCEPT ![p] = NoRet]
    /\ frame' = [frame EXCEPT ![p] = NoFrame]
    /\ pc' = [pc EXCEPT ![p] = "history"]
    /\ UNCHANGED <<lists, issued, calls, built, web>>

\* count_calls.wrapper: INCR of the counter, then the wrapped method
CountCalls(p, data) ==
    /\ pc[p] = "idle"
    /\ entered < MaxCalls
    /\ strs' = RedisIncr(strs, QualName)
    /\ entered' = entered + 1
    /\ req' = [req EXCEPT ![p] = [op |-> "store", key |-> <<>>, fn |-> "None", arg |-> data]]
    /\ ret' = [ret EXCEPT ![p] = NoRet]
    /\ frame' = [frame EXCEPT ![p] = NoFrame]
    /\ pc' = [pc EXCEPT ![p] = "history"]
    /\ UNCHANGED <<lists, issued, calls, built, web>>

\* call_history.wrapper recording str(data) in place of str(args)
HistoryInputBare(p) ==
    /\ pc[p] = "history"
    /\ lists' = RedisRpush(lists, InputsKey, Utf8Encode(Str(req[p].arg)))
    /\ pc' = [pc EXCEPT ![p] = "body"]
    /\ UNCHANGED <<strs, issued, entered, req, frame, ret, calls, built, web>>

\* call_history.wrapper, before the call: RPUSH of str(args) to the inputs
HistoryInput(p) ==
    /\ pc[p] = "history"
    /\ lists' = RedisRpush(lists, InputsKey, Utf8Encode(StrArgs(req[p].arg)))
    /\ pc' = [pc EXCEPT ![p] = "body"]
    /\ UNCHANGED <<strs, issued, entered, req, frame, ret, calls, built, web>>

\* store writing every value under one key made once, not one per call
StoreBodyOneKey(p, id) ==
    /\ pc[p] = "body"
    /\ id \notin issued
    /\ issued' = issued \cup {id}
    /\ strs' = RedisSet(strs, <<117, 49>>, RedisEncode(req[p].arg))
    /\ frame' = [frame EXCEPT ![p] = [key |-> <<117, 49>>, output |-> PyStr(<<117, 49>>)]]
    /\ pc' = [pc EXCEPT ![p] = "output"]
    /\ UNCHANGED <<lists, entered, req, ret, calls, built, web>>

\* store returning its key without the SET
StoreBodyNoSet(p, id) ==
    /\ pc[p] = "body"
    /\ id \notin issued
    /\ issued' = issued \cup {id}
    /\ frame' = [frame EXCEPT ![p] = [key |-> id, output |-> PyStr(id)]]
    /\ pc' = [pc EXCEPT ![p] = "output"]
    /\ UNCHANGED <<strs, lists, entered, req, ret, calls, built, web>>

\* Cache.store itself: a new uuid4 string as key, SET key data, return key
\* to call_history.wrapper, which binds it to output
StoreBody(p, id) ==
    /\ pc[p] = "body"
    /\ id \notin issued
    /\ issued' = issued \cup {id}
    /\ strs' = RedisSet(strs, id, RedisEncode(req[p].arg))
    /\ frame' = [frame EXCEPT ![p] = [key |-> id, output |-> PyStr(id)]]
    /\ pc' = [pc EXCEPT ![p] = "output"]
    /\ UNCHANGED <<lists, entered, req, ret, calls, built, web>>

\* call_history.wrapper without its "return output": the caller gets None
HistoryOutputNoReturn(p) ==
    /\ pc[p] = "output"
    /\ lists' = RedisRpush(lists, OutputsKey, Utf8Encode(Str(frame[p].output)))
    /\ ret' = [ret EXCEPT ![p] = [val |-> PyNone, fnCalled |-> FALSE, done |-> TRUE, printed |-> <<>>]]
    /\ calls' = Append(calls, [arg |-> req[p].arg, key |-> frame[p].key, ret |-> PyNone])
    /\ pc' = [pc EXCEPT ![p] = "idle"]
    /\ UNCHANGED <<strs, issued, entered, req, frame, built, web>>

\* call_history.wrapper, after the call: RPUSH of str(output) to the
\* outputs, return output; count_calls.wrapper returns it to the caller
HistoryOutput(p) ==
    /\ pc[p] = "output"
    /\ lists' = RedisRpush(lists, OutputsKey, Utf8Encode(Str(frame[p].output)))
    /\ ret' = [ret EXCEPT ![p] = [val |-> frame[p].output, fnCalled |-> FALSE, done |-> TRUE, printed |-> <<>>]]
    /\ calls' = Append(calls, [arg |-> req[p].arg, key |-> frame[p].key, ret |-> frame[p].output])
    /\ pc' = [pc EXCEPT ![p] = "idle"]
    /\ UNCHANGED <<strs, issued, entered, req, frame, built, web>>

(***************************************************************************)
(* Cache.get, Cache.get_str, Cache.get_int.                                *)
(***************************************************************************)
\* Python's truth value of a bytes object: false when empty
Truthy(d) == Len(d.s) > 0

\* get_str's lambda d: d.decode('utf-8') if d else None
GetStrFn(d) == IF Truthy(d) THEN Utf8Decode(d.s) ELSE PyNone

\* get_int's lambda d: int(d) if d else None
GetIntFn(d) == IF Truthy(d) THEN ParseInt(d.s) ELSE PyNone

\* fn(value) for the fn arguments of get
ApplyFn(fn, d) ==
    CASE fn = "decode" -> Utf8Decode(d.s)
      [] fn = "int" -> ParseInt(d.s)
      [] fn = "float" -> ParseFloat(d.s)
      [] fn = "get_str" -> GetStrFn(d)
      [] fn = "get_int" -> GetIntFn(d)

\* get applying fn before it looks whether the key exists
CacheGetEager(db, key, fn) ==
    LET value == RedisGet(db, key) IN
    IF fn # "None" THEN [val |-> ApplyFn(fn, value), fnCalled |-> TRUE, done |-> TRUE, printed |-> <<>>]
    ELSE [val |-> value, fnCalled |-> FALSE, done |-> TRUE, printed |-> <<>>]

\* Cache.get(key, fn): what it returns or raises, and whether fn ran
CacheGet(db, key, fn) ==
    LET value == RedisGet(db, key) IN
    IF value.t = "None" THEN [val |-> PyNone, fnCalled |-> FALSE, done |-> TRUE, printed |-> <<>>]
    ELSE IF fn # "None" THEN [val |-> ApplyFn(fn, value), fnCalled |-> TRUE, done |-> TRUE, printed |-> <<>>]
    ELSE [val |-> value, fnCalled |-> FALSE, done |-> TRUE, printed |-> <<>>]

\* a caller's cache.get(key, fn)
Get(p, key, fn) ==
    /\ pc[p] = "idle"
    /\ req' = [req EXCEPT ![p] = [op |-> "get", key |-> key, fn |-> fn, arg |-> PyNone]]
    /\ ret' = [ret EXCEPT ![p] = CacheGet(strs, key, fn)]
    /\ UNCHANGED <<strs, lists, issued, entered, pc, frame, calls, built, web>>

\* a caller's cache.get_str(key)
GetStr(p, key) ==
    /\ pc[p] = "idle"
    /\ req' = [req EXCEPT ![p] = [op |-> "get_str", key |-> key, fn |-> "get_str", arg |-> PyNone]]
    /\ ret' = [ret EXCEPT ![p] = CacheGet(strs, key, "get_str")]
    /\ UNCHANGED <<strs, lists, issued, entered, pc, frame, calls, built, web>>

\* a caller's cache.get_int(key)
GetInt(p, key) ==
    /\ pc[p] = "idle"
    /\ req' = [req EXCEPT ![p] = [op |-> "get_int", key |-> key, fn |-> "get_int", arg |-> PyNone]]
    /\ ret' = [ret EXCEPT ![p] = CacheGet(strs, key, "get_int")]
    /\ UNCHANGED <<strs, lists, issued, entered, pc, frame, calls, built, web>>

(***************************************************************************)
(* replay(cache.store).                                                    *)
(***************************************************************************)
Min(a, b) == IF a < b THEN a ELSE b

\* calls_count: int(calls.decode("utf-8")) if calls else 0, and 0 when
\* that raises
CallsCount(db) ==
    LET c == RedisGet(db, QualName) IN
    IF c.t = "None" \/ ~Truthy(c) THEN 0
    ELSE IF ValidUtf8(c.s) /\ IsIntText(c.s) THEN ParseInt(c.s).n
    ELSE 0

\* "Cache.store was called <n> times:"
ReplayHeader(db) ==
    QualName \o <<32, 119, 97, 115, 32, 99, 97, 108, 108, 101, 100, 32>>
        \o ReprInt(CallsCount(db)) \o <<32, 116, 105, 109, 101, 115, 58>>

\* the line with its two fields in each other's place
ReplayLineSwapped(inp, outp) ==
    QualName \o <<40, 42>> \o Utf8DecodeFrom(outp, <<>>)
        \o <<41, 32, 45, 62, 32>> \o Utf8DecodeFrom(inp, <<>>)

\* "Cache.store(*<inp>) -> <outp>"
ReplayLine(inp, outp) ==
    QualName \o <<40, 42>> \o Utf8DecodeFrom(inp, <<>>)
        \o <<41, 32, 45, 62, 32>> \o Utf8DecodeFrom(outp, <<>>)

\* how many pairs of zip(inputs, outputs) print before one fails to decode
ReplayPrintable(ls) ==
    LET ins == RedisLrange(ls, InputsKey)
        outs == RedisLrange(ls, OutputsKey)
        m == Min(Len(ins), Len(outs))
        bad == {i \in 1..m : ~ValidUtf8(ins[i]) \/ ~ValidUtf8(outs[i])}
    IN IF bad = {} THEN m ELSE (CHOOSE i \in bad : \A j \in bad : i <= j) - 1

\* everything replay prints
ReplayOutput(db, ls) ==
    LET ins == RedisLrange(ls, InputsKey)
        outs == RedisLrange(ls, OutputsKey)
    IN <<ReplayHeader(db)>> \o [i \in 1..ReplayPrintable(ls) |-> ReplayLine(ins[i], outs[i])]

\* what replay returns (None) or raises
ReplayResult(ls) ==
    IF ReplayPrintable(ls) = Min(Len(RedisLrange(ls, InputsKey)), Len(RedisLrange(ls, OutputsKey)))
    THEN PyNone ELSE Raised("UnicodeDecodeError")

\* replay reading the history with LPOP, which empties the lists
ReplayConsuming(p) ==
    /\ pc[p] = "idle"
    /\ req' = [req EXCEPT ![p] = [op |-> "replay", key |-> QualName, fn |-> "None", arg |-> PyNone]]
    /\ ret' = [ret EXCEPT ![p] = [val |-> ReplayResult(lists), fnCalled |-> FALSE,
                                  done |-> TRUE, printed |-> ReplayOutput(strs, lists)]]
    /\ lists' = FlushedLists
    /\ UNCHANGED <<strs, issued, entered, pc, frame, calls, built, web>>

\* a caller's replay(cache.store)
Replay(p) ==
    /\ pc[p] = "idle"
    /\ req' = [req EXCEPT ![p] = [op |-> "replay", key |-> QualName, fn |-> "None", arg |-> PyNone]]
    /\ ret' = [ret EXCEPT ![p] = [val |-> ReplayResult(lists), fnCalled |-> FALSE,
                                  done |-> TRUE, printed |-> ReplayOutput(strs, lists)]]
    /\ UNCHANGED <<strs, lists, issued, entered, pc, frame, calls, built, web>>

(***************************************************************************)
(* One caller using a freshly constructed Cache.                           *)
(***************************************************************************)
Next ==
    \/ \E data \in Values : CountCalls(1, data)
    \/ HistoryInput(1)
    \/ \E id \in Ids : StoreBody(1, id)
    \/ HistoryOutput(1)
    \/ \E key \in GetKeys, fn \in CallerFns : Get(1, key, fn)
    \/ \E key \in GetKeys : GetStr(1, key)
    \/ \E key \in GetKeys : GetInt(1, key)
    \/ Replay(1)

Spec == Init /\ [][Next]_vars

(***************************************************************************)
(* Caller 1 stores; caller 2 replays at any moment, also while a store     *)
(* call of caller 1 is in progress.                                        *)
(***************************************************************************)
NextObserved ==
    \/ \E data \in Values : CountCalls(1, data)
    \/ HistoryInput(1)
    \/ \E id \in Ids : StoreBody(1, id)
    \/ HistoryOutput(1)
    \/ Replay(2)

SpecObserved == Init /\ [][NextObserved]_vars

(***************************************************************************)
(* Cache(): a Cache object constructed on the same server.                 *)
(***************************************************************************)
\* the number of Cache objects constructed in one behaviour
MaxBuilds == 2

\* the data callers pass to store where other inputs vary: b"hello", "é"
FewValues == {PyBytes(<<104, 101, 108, 108, 111>>), PyStr(<<233>>)}

\* Cache.__init__ without its flushdb()
ConstructNoFlush(p) ==
    /\ pc[p] = "idle"
    /\ built < MaxBuilds
    /\ built' = built + 1
    /\ req' = [req EXCEPT ![p] = [op |-> "Cache", key |-> <<>>, fn |-> "None", arg |-> PyNone]]
    /\ ret' = [ret EXCEPT ![p] = [val |-> PyNone, fnCalled |-> FALSE, done |-> TRUE, printed |-> <<>>]]
    /\ UNCHANGED <<strs, lists, issued, entered, pc, frame, calls, web>>

\* Cache.__init__: a client for the server, then FLUSHDB, which removes
\* every key of the database, those of web.py included
Construct(p) ==
    /\ pc[p] = "idle"
    /\ built < MaxBuilds
    /\ built' = built + 1
    /\ strs' = FlushedStrs
    /\ lists' = FlushedLists
    /\ ttl' = 0
    /\ req' = [req EXCEPT ![p] = [op |-> "Cache", key |-> <<>>, fn |-> "None", arg |-> PyNone]]
    /\ ret' = [ret EXCEPT ![p] = [val |-> PyNone, fnCalled |-> FALSE, done |-> TRUE, printed |-> <<>>]]
    /\ UNCHANGED <<issued, entered, pc, frame, calls, fetches, wcall>>

(***************************************************************************)
(* Caller 1 uses its Cache; caller 2 constructs a Cache on the same server *)
(* at any moment, also while a store call of caller 1 is in progress.      *)
(***************************************************************************)
NextBuild ==
    \/ \E data \in FewValues : CountCalls(1, data)
    \/ HistoryInput(1)
    \/ \E id \in Ids : StoreBody(1, id)
    \/ HistoryOutput(1)
    \/ \E key \in GetKeys, fn \in CallerFns : Get(1, key, fn)
    \/ \E key \in GetKeys : GetStr(1, key)
    \/ \E key \in GetKeys : GetInt(1, key)
    \/ Replay(1)
    \/ Construct(2)

SpecBuild == Init /\ [][NextBuild]_vars

(***************************************************************************)
(* web.py: get_page under cache_page(expiration=10), one Redis command or  *)
(* one HTTP request per step; its redis_client is the same server.         *)
(***************************************************************************)
\* the number of get_page calls of one behaviour that go on to fetch
MaxFetches == 2

\* cache_page(expiration=10)
Expiration == 10

\* the url callers pass: "http://x"
Url == <<104, 116, 116, 112, 58, 47, 47, 120>>

\* f"cached:{url}"
CachedKey == <<99, 97, 99, 104, 101, 100, 58>> \o Url

\* f"count:{url}"
CountKey == <<99, 111, 117, 110, 116, 58>> \o Url

\* the texts the page may have when fetched: "", "hi", "é"
Pages == {<<>>, <<104, 105>>, <<233>>}

\* the state of exercise.py other than the server's string keys
cachevars == <<lists, issued, entered, pc, req, frame, ret, calls, built>>

\* a key removed from the server
RedisExpire(db, key) == [x \in DOMAIN db \ {key} |-> db[x]]

\* the calls that have missed so far: those that fetched, and those on
\* their way to the fetch
Missed == fetches + Cardinality({q \in Callers : wcall[q].at \in {"count", "fetch"}})

\* cache_page.wrapper: GET cached:<url>; a true cached_content is decoded
\* and returned, otherwise func(url) is called
PageLookup(p) ==
    /\ wcall[p].at = "idle"
    /\ LET c == RedisGet(strs, CachedKey) IN
       IF Truthy(c)
       THEN wcall' = [wcall EXCEPT ![p] = [at |-> "idle", cached |-> c, content |-> PyNone,
                                           val |-> Utf8Decode(c.s), done |-> TRUE]]
       ELSE /\ Missed < MaxFetches
            /\ wcall' = [wcall EXCEPT ![p] = [at |-> "count", cached |-> c, content |-> PyNone,
                                              val |-> PyNone, done |-> FALSE]]
    /\ UNCHANGED <<strs, ttl, fetches, cachevars>>

\* get_page: INCR count:<url>
PageCount(p) ==
    /\ wcall[p].at = "count"
    /\ strs' = RedisIncr(strs, CountKey)
    /\ wcall' = [wcall EXCEPT ![p].at = "fetch"]
    /\ UNCHANGED <<ttl, fetches, cachevars>>

\* get_page: requests.get(url) answers; response.text goes back to the
\* wrapper as content
PageFetch(p, text) ==
    /\ wcall[p].at = "fetch"
    /\ fetches' = fetches + 1
    /\ wcall' = [wcall EXCEPT ![p].at = "setex", ![p].content = PyStr(text)]
    /\ UNCHANGED <<strs, ttl, cachevars>>

\* get_page: requests.get(url) raises, and the call ends with it
PageFetchFails(p) ==
    /\ wcall[p].at = "fetch"
    /\ fetches' = fetches + 1
    /\ wcall' = [wcall EXCEPT ![p].at = "idle", ![p].val = Raised("RequestException"),
                              ![p].done = TRUE]
    /\ UNCHANGED <<strs, ttl, cachevars>>

\* cache_page.wrapper: SETEX cached:<url> expiration content; return content
PageSetex(p) ==
    /\ wcall[p].at = "setex"
    /\ strs' = RedisSet(strs, CachedKey, Utf8Encode(wcall[p].content.s))
    /\ ttl' = Expiration
    /\ wcall' = [wcall EXCEPT ![p].at = "idle", ![p].val = wcall[p].content, ![p].done = TRUE]
    /\ UNCHANGED <<fetches, cachevars>>

\* an expiry that takes count:<url> along with the cache entry
TickExpiresCount ==
    /\ ttl > 0
    /\ ttl' = ttl - 1
    /\ strs' = IF ttl = 1 THEN RedisExpire(RedisExpire(strs, CachedKey), CountKey) ELSE strs
    /\ UNCHANGED <<fetches, wcall, cachevars>>

\* a second passes on the server: the key set with SETEX expires when its
\* time is up; no other key has a time to live
Tick ==
    /\ ttl > 0
    /\ ttl' = ttl - 1
    /\ strs' = IF ttl = 1 THEN RedisExpire(strs, CachedKey) ELSE strs
    /\ UNCHANGED <<fetches, wcall, cachevars>>

(***************************************************************************)
(* Two callers of get_page(url), and time passing.                         *)
(***************************************************************************)
NextWeb ==
    \/ \E p \in Callers : PageLookup(p)
    \/ \E p \in Callers : PageCount(p)
    \/ \E p \in Callers, text \in Pages : PageFetch(p, text)
    \/ \E p \in Callers : PageFetchFails(p)
    \/ \E p \in Callers : PageSetex(p)
    \/ Tick

SpecWeb == Init /\ [][NextWeb]_vars

(***************************************************************************)
(* A Redis command of the wrapped store raising (the server unreachable,   *)
(* or redis-py refusing the value): no wrapper catches it, so the call     *)
(* ends there with the exception.                                          *)
(***************************************************************************)
\* what the caller of a store call that raised is left with
Failed(p) == [ret EXCEPT ![p] = [val |-> Raised("RedisError"), fnCalled |-> FALSE,
                                 done |-> TRUE, printed |-> <<>>]]

\* call_history.wrapper: the RPUSH to the inputs raises
HistoryInputFails(p) ==
    /\ pc[p] = "history"
    /\ ret' = Failed(p)
    /\ pc' = [pc EXCEPT ![p] = "idle"]
    /\ UNCHANGED <<strs, lists, issued, entered, req, frame, calls, built, web>>

\* Cache.store itself: the key is made, and the SET raises
StoreBodyFails(p, id) ==
    /\ pc[p] = "body"
    /\ id \notin issued
    /\ issued' = issued \cup {id}
    /\ ret' = Failed(p)
    /\ pc' = [pc EXCEPT ![p] = "idle"]
    /\ UNCHANGED <<strs, lists, entered, req, frame, calls, built, web>>

\* call_history.wrapper: the RPUSH to the outputs raises
HistoryOutputFails(p) ==
    /\ pc[p] = "output"
    /\ ret' = Failed(p)
    /\ pc' = [pc EXCEPT ![p] = "idle"]
    /\ UNCHANGED <<strs, lists, issued, entered, req, frame, calls, built, web>>

(***************************************************************************)
(* Two callers of one Cache whose store calls interleave and may raise.    *)
(***************************************************************************)
NextHazard ==
    \/ \E p \in Callers, data \in FewValues : CountCalls(p, data)
    \/ \E p \in Callers : HistoryInput(p)
    \/ \E p \in Callers : HistoryInputFails(p)
    \/ \E p \in Callers, id \in Ids : StoreBody(p, id)
    \/ \E p \in Callers, id \in Ids : StoreBodyFails(p, id)
    \/ \E p \in Callers : HistoryOutput(p)
    \/ \E p \in Callers : HistoryOutputFails(p)

SpecHazard == Init /\ [][NextHazard]_vars

(***************************************************************************)
(* Two callers of one Cache whose store calls interleave command by        *)
(* command, every command succeeding.                                      *)
(***************************************************************************)
NextConcurrent ==
    \/ \E p \in Callers, data \in FewValues : CountCalls(p, data)
    \/ \E p \in Callers : HistoryInput(p)
    \/ \E p \in Callers, id \in Ids : StoreBody(p, id)
    \/ \E p \in Callers : HistoryOutput(p)

SpecConcurrent == Init /\ [][NextConcurrent]_vars

(***************************************************************************)
(* Properties.                                                             *)
(***************************************************************************)
Inputs == lists[InputsKey]

Outputs == lists[OutputsKey]

\* C1: with one caller on a fresh Cache, the counter key is absent before
\* any store call, and whenever no call is in progress its value is the
\* decimal text of the number of store calls completed
C1_CounterEqualsCalls ==
    pc[1] = "idle" =>
        /\ (calls = <<>> => QualName \notin DOMAIN strs)
        /\ (calls # <<>> => RedisGet(strs, QualName) = PyBytes(ReprInt(Len(calls))))
        /\ CallsCount(strs) = Len(calls)

C1_Witness == pc[1] = "idle" /\ Len(calls) >= 2 /\ QualName \in DOMAIN strs

\* C2: with one caller, after N completed store calls both history lists
\* have length N; entry i of the inputs is str(args) of the i-th call and
\* entry i of the outputs is str of the identifier the i-th call returned
C2_HistoryPairs ==
    pc[1] = "idle" =>
        /\ Len(Inputs) = Len(calls)
        /\ Len(Outputs) = Len(calls)
        /\ \A i \in 1..Len(calls) :
              /\ Inputs[i] = Utf8Encode(<<40>> \o Repr(calls[i].arg) \o <<44, 41>>)
              /\ Outputs[i] = Utf8Encode(calls[i].ret.s)
              /\ calls[i].ret.t = "str"

C2_Witness ==
    /\ pc[1] = "idle"
    /\ Len(calls) >= 2
    /\ calls[1].arg # calls[2].arg
    /\ Len(Inputs) = 2

\* the transform that gives a value of the type back from its stored bytes
TransformFor(v) ==
    CASE v.t = "bytes" -> "None"
      [] v.t = "str" -> "decode"
      [] v.t = "int" -> "int"
      [] v.t = "float" -> "float"

\* C3: get(store(v), fn) with the transform for v's type returns v, also
\* after later store calls of other values
C3_RoundTrip ==
    \A i \in 1..Len(calls) :
        (/\ req[1].op = "get"
         /\ ret[1].done
         /\ req[1].key = calls[i].key
         /\ req[1].fn = TransformFor(calls[i].arg)) => ret[1].val = calls[i].arg

C3_Witness ==
    /\ Len(calls) >= 2
    /\ req[1].op = "get"
    /\ ret[1].done
    /\ req[1].key = calls[1].key
    /\ calls[1].arg.t = "str"
    /\ calls[1].arg # calls[2].arg
    /\ req[1].fn = "decode"
    /\ ret[1].val = calls[1].arg

IsGetOp(op) == op \in {"get", "get_str", "get_int"}

\* C4: get, get_str and get_int of a key the store does not hold return
\* None without raising and without running fn; fn runs only when the key
\* exists
C4_AbsentIsNone ==
    (IsGetOp(req[1].op) /\ ret[1].done) =>
        /\ (req[1].key \notin DOMAIN strs => ret[1].val = PyNone /\ ~ret[1].fnCalled)
        /\ (ret[1].fnCalled => req[1].key \in DOMAIN strs)

C4_Witness ==
    /\ req[1].op = "get"
    /\ req[1].fn = "int"
    /\ ret[1].done
    /\ req[1].key \notin DOMAIN strs
    /\ strs # FlushedStrs
    /\ ret[1].val = PyNone

\* C5: get_int of a key whose bytes are not the decimal text of an
\* integer, the empty bytes included, raises; it returns None only when the
\* key does not exist
C5_GetIntRaises ==
    (req[1].op = "get_int" /\ ret[1].done) =>
        /\ (req[1].key \in DOMAIN strs /\ ~IsIntText(strs[req[1].key])
               => IsRaised(ret[1].val))
        /\ (ret[1].val = PyNone => req[1].key \notin DOMAIN strs)

\* C6: get_str of a key that exists returns the UTF-8 decoding of its
\* bytes, the empty value included, and returns None exactly when the key
\* does not exist
C6_GetStrDecodes ==
    (req[1].op = "get_str" /\ ret[1].done) =>
        /\ (req[1].key \in DOMAIN strs => ret[1].val = Utf8Decode(strs[req[1].key]))
        /\ (ret[1].val = PyNone <=> req[1].key \notin DOMAIN strs)

\* C7: the identifiers returned by the completed store calls are pairwise
\* distinct, also for equal values, and the bytes every earlier call wrote
\* are still under its identifier
C7_DistinctIds ==
    /\ \A i, j \in 1..Len(calls) : i # j => calls[i].ret # calls[j].ret
    /\ \A i \in 1..Len(calls) :
          /\ calls[i].key \in DOMAIN strs
          /\ strs[calls[i].key] = RedisEncode(calls[i].arg)

C7_Witness ==
    /\ Len(calls) >= 2
    /\ calls[1].arg = calls[2].arg
    /\ calls[1].ret # calls[2].ret

\* C8: a completed call of the decorated store returns to its caller the
\* key under which Cache.store wrote the value, and the entry it appended
\* to the outputs is the text of that key
C8_Transparent ==
    (req[1].op = "store" /\ ret[1].done) =>
        LET c == calls[Len(calls)] IN
        /\ ret[1].val = PyStr(c.key)
        /\ c.key \in DOMAIN strs
        /\ strs[c.key] = RedisEncode(req[1].arg)
        /\ Len(Outputs) = Len(calls)
        /\ Outputs[Len(calls)] = Utf8Encode(c.key)

C8_Witness ==
    /\ req[1].op = "store"
    /\ ret[1].done
    /\ Len(calls) >= 2
    /\ ret[1].val.t = "str"
    /\ ret[1].val.s \in DOMAIN strs

\* a step in which caller 2's replay returns
ReplayReturns == ret'[2] # ret[2] \/ req'[2] # req[2]

\* the value of the counter key, 0 when it is absent
CounterValue == IF QualName \in DOMAIN strs THEN ParseInt(strs[QualName]).n ELSE 0

\* what caller 2's replay printed, against the store and the calls made:
\* "Cache.store was called <count> times:", then one line
\* "Cache.store(*(<argument>,)) -> <identifier>" per pair
ReplayRendered ==
    LET out == ret[2].printed
        m == Min(Len(Inputs), Len(Outputs))
    IN /\ ret[2].val = PyNone
       /\ Len(out) = 1 + m
       /\ out[1] = <<67, 97, 99, 104, 101, 46, 115, 116, 111, 114, 101,
                     32, 119, 97, 115, 32, 99, 97, 108, 108, 101, 100, 32>>
                   \o ReprInt(CounterValue) \o <<32, 116, 105, 109, 101, 115, 58>>
       /\ \A i \in 1..m :
             /\ i <= Len(calls)
             /\ out[i + 1] = <<67, 97, 99, 104, 101, 46, 115, 116, 111, 114, 101, 40, 42, 40>>
                             \o Repr(calls[i].arg) \o <<44, 41, 41, 32, 45, 62, 32>>
                             \o calls[i].key
       /\ (pc[1] = "idle" => CounterValue = Len(calls) /\ Len(out) = 1 + Len(calls))

\* C9: every replay prints the header with the current value of the
\* counter key (0 when absent) and then min(len(inputs), len(outputs))
\* lines, line i pairing inputs[i] with outputs[i]; after N completed
\* calls the count is N and line i shows the i-th call's argument and
\* identifier
C9_ReplayRenders == [][ReplayReturns => ReplayRendered']_vars

C9_Witness ==
    /\ req[2].op = "replay"
    /\ ret[2].done
    /\ pc[1] = "output"
    /\ Len(calls) = 1
    /\ Len(Inputs) = 2
    /\ Len(ret[2].printed) = 2
    /\ ret[2].printed[1] = ReplayHeader(strs)
    /\ entered = 2

\* C10: a replay changes no string key (the counter, the stored values)
\* and neither history list
C10_ReplayWritesNothing == [][ReplayReturns => (strs' = strs /\ lists' = lists)]_vars

C10_Witness ==
    /\ req[2].op = "replay"
    /\ ret[2].done
    /\ Len(ret[2].printed) = 3
    /\ Len(Inputs) = 2
    /\ Len(Outputs) = 2
    /\ Cardinality(DOMAIN strs) = 3

\* a step that constructs a Cache
Constructs == built' # built

\* C11: the step that constructs a Cache leaves no string key and no list
\* entry, so the counter reads zero, both histories are empty and every
\* identifier returned before resolves to None; no other step removes a
\* key or shortens a list
C11_ConstructClears ==
    [][IF Constructs
       THEN /\ strs' = FlushedStrs
            /\ CounterValue' = 0
            /\ Inputs' = <<>>
            /\ Outputs' = <<>>
            /\ \A i \in 1..Len(calls) : RedisGet(strs', calls[i].key) = PyNone
       ELSE /\ \A k \in DOMAIN strs : k \in DOMAIN strs'
            /\ Len(Inputs') >= Len(Inputs)
            /\ Len(Outputs') >= Len(Outputs)]_vars

C11_Witness ==
    /\ built >= 2
    /\ Len(calls) >= 1
    /\ req[1].op = "get"
    /\ ret[1].done
    /\ req[1].key = calls[1].key
    /\ ret[1].val = PyNone
    /\ strs = FlushedStrs


\* C12: a get_page call that finds cached:<url> present, whatever its
\* content, ends at the lookup with the cached text as its result, so it
\* neither increments count:<url> nor fetches nor rewrites the entry
C12_HitServesCache ==
    \A p \in Callers :
        wcall[p].cached.t = "bytes" =>
            /\ wcall[p].at = "idle"
            /\ wcall[p].done
            /\ wcall[p].val = Utf8Decode(wcall[p].cached.s)


\* count:<url> as a number, 0 while the key is absent
PageCounter == IF CountKey \in DOMAIN strs THEN ParseInt(strs[CountKey]).n ELSE 0

\* C13: a get_page call that misses increments count:<url> by exactly one
\* before it fetches, fetches once, then stores the content under
\* cached:<url> with the expiration and returns it; a call that starts
\* while that time to live has not elapsed is a hit, and a call that starts
\* with no time to live running is a miss
C13_MissThenHit ==
    [][\A p \in Callers :
        /\ (wcall[p].at = "count" /\ wcall'[p].at # "count") =>
               /\ PageCounter' = PageCounter + 1
               /\ fetches' = fetches
               /\ wcall'[p].at = "fetch"
        /\ (wcall[p].at = "fetch" /\ wcall'[p].at # "fetch") =>
               /\ fetches' = fetches + 1
               /\ PageCounter' = PageCounter
               /\ wcall'[p].at \in {"setex", "idle"}
        /\ (wcall[p].at = "setex" /\ wcall'[p].at # "setex") =>
               /\ RedisGet(strs', CachedKey) = PyBytes(Utf8Encode(wcall[p].content.s))
               /\ ttl' = Expiration
               /\ wcall'[p].at = "idle" /\ wcall'[p].done /\ wcall'[p].val = wcall[p].content
               /\ PageCounter' = PageCounter /\ fetches' = fetches
        /\ (wcall[p].at = "idle" /\ wcall'[p] # wcall[p]) =>
               IF ttl > 0
               THEN /\ wcall'[p].at = "idle" /\ wcall'[p].done
                    /\ wcall'[p].val = Utf8Decode(strs[CachedKey])
               ELSE wcall'[p].at = "count"]_vars


\* a store call of caller p ends in this step with an exception
StoreFails(p) == pc[p] # "idle" /\ pc'[p] = "idle" /\ ret'[p].val.t = "RedisError"

\* C14: the counter is incremented on entry, before the wrapped method is
\* invoked, so it always equals the number of times the instrumented store
\* was entered; a call whose history append or value write raises leaves
\* its increment in place
C14_CountsEntries ==
    [][/\ CounterValue' = entered'
       /\ entered' # entered =>
              /\ entered' = entered + 1
              /\ CounterValue' = CounterValue + 1
              /\ lists' = lists /\ issued' = issued
              /\ \A k \in DOMAIN strs' : k \in DOMAIN strs \/ k = QualName
       /\ \A p \in Callers : StoreFails(p) =>
              /\ CounterValue' = CounterValue
              /\ CounterValue' >= 1
              /\ CounterValue' > Len(calls')]_vars

C14_Witness ==
    /\ \A p \in Callers : pc[p] = "idle" /\ ret[p].done
    /\ ret[1].val.t = "RedisError"
    /\ ret[2].val.t = "str"
    /\ CounterValue = 2
    /\ Len(calls) = 1


\* no store call is in progress
Quiet == \A p \in Callers : pc[p] = "idle"

\* C15: a store call that raises has recorded both its input and its
\* output or neither, so whenever no call is in progress the inputs and
\* the outputs have the same length
C15_FailureKeepsPairs == Quiet => Len(Inputs) = Len(Outputs)


\* C16: however the store calls of concurrent callers interleave, once all
\* have completed the counter and the lengths of both lists equal the
\* number of calls made: no increment and no append is lost
C16_NothingLost ==
    Quiet =>
        /\ CounterValue = Len(calls)
        /\ Len(Inputs) = Len(calls)
        /\ Len(Outputs) = Len(calls)
        /\ entered = Len(calls)

\* both callers have stored, caller 2 recording its input first and caller 1
\* completing first
C16_Witness ==
    /\ Quiet
    /\ Len(calls) = 2
    /\ req[1].op = "store" /\ req[2].op = "store"
    /\ ret[1].val = calls[1].ret /\ ret[2].val = calls[2].ret
    /\ req[1].arg # req[2].arg
    /\ Inputs[1] = Utf8Encode(StrArgs(req[2].arg))
    /\ CounterValue = 2


\* the entry of the inputs that call i of the completed calls wrote
ArgAt(i) == Utf8Encode(StrArgs(calls[i].arg))

\* the entry of the outputs that call i of the completed calls wrote
KeyAt(i) == Utf8Encode(Str(calls[i].ret))

\* C17: the two appends of one call are not atomic. Once all calls have
\* completed, the outputs are in the order the calls completed and the
\* inputs hold the same calls' arguments, but not always in that order: a
\* position may pair the argument of one call with the identifier of another
C17_AppendsInterleave ==
    Quiet =>
        /\ Len(Outputs) = Len(calls)
        /\ \A i \in 1..Len(calls) : Outputs[i] = KeyAt(i)
        /\ Len(Inputs) = Len(calls)
        /\ \A i \in 1..Len(calls) : \E j \in 1..Len(calls) : Inputs[j] = ArgAt(i)
        /\ \A j \in 1..Len(Inputs) : \E i \in 1..Len(calls) : Inputs[j] = ArgAt(i)

\* both calls completed, and some position holds the argument of one call
\* and the identifier returned by the other
C17_Witness ==
    /\ Quiet
    /\ Len(calls) = 2
    /\ \E i, j, k \in 1..2 :
        /\ j # k
        /\ Inputs[i] = ArgAt(j)
        /\ Inputs[i] # ArgAt(k)
        /\ Outputs[i] = KeyAt(k)
        /\ Outputs[i] # KeyAt(j)


\* caller 1 completes a get, get_str, get_int or replay in this step
Reads == ret'[1].done /\ req'[1].op \in {"get", "get_str", "get_int", "replay"} /\ <<req[1], ret[1]>> # <<req'[1], ret'[1]>>

\* C18: in every step the counter stays the same, or increases by exactly
\* one on entry into a store call, or is reset by a Cache construction; and
\* get, get_str, get_int and replay leave the counter and both lists as
\* they were
C18_CounterSteps ==
    [][/\ \/ CounterValue' = CounterValue
          \/ CounterValue' = CounterValue + 1 /\ entered' = entered + 1
          \/ CounterValue' = 0 /\ Constructs
       /\ entered' = entered + 1 => CounterValue' = CounterValue + 1
       /\ CounterValue' < CounterValue => Constructs
       /\ Reads =>
              /\ RedisGet(strs', QualName) = RedisGet(strs, QualName)
              /\ Inputs' = Inputs
              /\ Outputs' = Outputs]_vars

\* the counter has been reset by a construction and counts again, and a
\* read of a key stored before has just completed
C18_Witness ==
    /\ built >= 2
    /\ entered = 2
    /\ CounterValue = 1
    /\ req[1].op = "get" /\ ret[1].done
    /\ Len(Inputs) = 1


\* C19: with no flush since construction, in every state, inside a call,
\* after a call that raised and with callers interleaving, the counter is
\* at least the length of the inputs, which is at least the length of the
\* outputs, and every identifier in the outputs is a key of the store
\* holding the value its call wrote
C19_WrittenBeforeRecorded ==
    /\ CounterValue >= Len(Inputs)
    /\ Len(Inputs) >= Len(Outputs)
    /\ Len(Outputs) = Len(calls)
    /\ \A i \in 1..Len(Outputs) :
        /\ Outputs[i] = Utf8Encode(calls[i].key)
        /\ RedisGet(strs, calls[i].key) = PyBytes(RedisEncode(calls[i].arg))

\* one call has completed and another has written its value and not yet
\* recorded its identifier
C19_Witness ==
    /\ pc[1] = "output"
    /\ pc[2] = "idle" /\ ret[2].done /\ ret[2].val.t = "str"
    /\ CounterValue = 2
    /\ Len(Inputs) = 2
    /\ Len(Outputs) = 1
    /\ frame[1].key \in DOMAIN strs


\* the get_page calls that have incremented count:<url> and not yet sent
\* their request
Counted == Cardinality({q \in Callers : wcall[q].at = "fetch"})

\* C20: under every interleaving of get_page calls and across expirations
\* of cached:<url>, count:<url> is the number of requests sent plus those
\* of the calls between their increment and their request, hence the number
\* of requests sent whenever no call is in between; the key is absent only
\* while nothing was counted, and the expiry of the cache entry leaves it
C20_CountIsFetches ==
    /\ PageCounter = fetches + Counted
    /\ (\A p \in Callers : wcall[p].at = "idle") => PageCounter = fetches
    /\ CountKey \in DOMAIN strs <=> fetches + Counted > 0

\* two callers both missed, each incremented and each fetched, and the
\* entry they wrote has expired since
C20_Witness ==
    /\ \A p \in Callers : wcall[p].at = "idle" /\ wcall[p].done /\ wcall[p].val.t = "str"
    /\ \A p \in Callers : wcall[p].cached = PyNone
    /\ fetches = 2
    /\ PageCounter = 2
    /\ ttl = 0
    /\ CachedKey \notin DOMAIN strs

=============================================================================
